---- MODULE Spec2Model ----
(***************************************************************************)
(* The MongoDB migration driver of lightmigrate-mongodb: several driver    *)
(* instances (one per process) share one migration database.  The model    *)
(* covers driver construction, the advisory lock (lock flag + lock record  *)
(* behind a unique index), the version store (drop-then-insert of one      *)
(* document) and the execution of a migration file, command by command or  *)
(* inside one transaction.                                                 *)
(*                                                                         *)
(* A handler is split at its database round trips: the server applies an   *)
(* operation atomically, the client continues when the answer is back.     *)
(* A database write has three outcomes: "ok" (applied, success reported),  *)
(* "failed" (not applied, error reported) and "lost" (applied by the       *)
(* server, but the client gets an error: the context deadline expired or   *)
(* the connection broke before the answer arrived).  A read is "ok" or     *)
(* "failed".                                                               *)
(***************************************************************************)
EXTENDS Integers, Sequences, FiniteSets, TLC

\* ------------------------------------------------------------------ bounds
\* number of driver instances (processes) sharing the database
NumDrivers == 2

\* width of the version integers in bits (stands for the 64 of uint64/int64)
WordBits == 3

\* the largest number of commands in one migration file
MaxCmds == 2

\* the number of batches of commands RunMigration issues in a behaviour
MaxRuns == 2

Drivers == 1..NumDrivers

\* --------------------------------------------------------------- constants
\* config.go: const lockKeyUniqueValue = 0
lockKeyUniqueValue == 0

\* lightmigrate.NoMigrationVersion, the uint64 returned for an empty collection
NoMigrationVersion == 0

\* ------------------------------------------------------------ integer width
\* a conversion that maps the negative int64 values to 0 instead of wrapping
ToUint64Clamped(x) == IF x < 0 THEN 0 ELSE x

\* uint64(x) for an int64 x: the value modulo 2^w
ToUint64(x) == x % (2 ^ WordBits)

\* int64(v) for a uint64 v: values at and above 2^(w-1) wrap to negatives
ToInt64(v) == IF v >= 2 ^ (WordBits - 1) THEN v - 2 ^ WordBits ELSE v

\* the versions callers pass to SetVersion: small, at 2^(w-1), and the maximum
InputVersions == {1, 2 ^ (WordBits - 1), 2 ^ WordBits - 1}

\* ------------------------------------------------------------ the database
WriteOutcomes == {"ok", "failed", "lost"}
ReadOutcomes == {"ok", "failed"}

\* the server applied the write
Applied(o) == o \in {"ok", "lost"}

\* the client sees err == nil
Acked(o) == o = "ok"

\* type lockObj (pid stands for pid, hostname and created_at of the owner)
lockObj(i) == [locking_key |-> lockKeyUniqueValue, pid |-> i]

\* type versionInfo: Version int64, Dirty bool
versionInfo(version, dirty) == [version |-> ToInt64(version), dirty |-> dirty]

\* an index that was created without the unique option rejects nothing
DuplicateKeyNotUnique(coll, doc, unique) == FALSE

\* the unique index on locking_key rejects a second document with the same key
DuplicateKey(coll, doc, unique) ==
    unique /\ \E k \in 1..Len(coll) : coll[k].locking_key = doc.locking_key

\* a delete that matches no document
DeleteManyNothing(coll, key) == coll

\* Collection.DeleteMany(filter): removes every document the filter matches
DeleteMany(coll, key) == SelectSeq(coll, LAMBDA doc : doc.locking_key # key)

\* ------------------------------------------------------------------- state
VARIABLES
    pc,           \* per driver: "none" (not constructed), "idle", or the pending step
    enabled,      \* per driver: cfg.Locking.Enabled
    transactionMode, \* per driver: cfg.TransactionMode
    lockFlag,     \* per driver: driver.lockFlag (0 unlocked, 1 locked)
    err,          \* per driver: err of the database call the handler is returning from
    arg,          \* per driver: the (version, dirty) of the SetVersion in progress
    cmds,         \* per driver: the parsed commands of the RunMigration in progress
    run,          \* per driver: the number of the batch its RunMigration is issuing
    trace,        \* per driver: the calls its RunMigration has made on the client
    txn,          \* per driver: the effects held back in its open transaction
    lockIndex,    \* the unique index on locking_key exists
    lockColl,     \* the locking collection: sequence of lockObj documents
    versionColl,  \* the migrations collection: sequence of versionInfo documents
    data,         \* the effects of migration commands every client can see
    runs,         \* the number of batches RunMigration has started to issue
    lastWrite,    \* the last write the server applied to the migrations collection
    lastRun,      \* the last RunMigration that returned: its batch and its calls
    lastRet,      \* what the most recent returning call returned
    lastCause     \* OrigErr of the DriverError that call returned, "nil" if none

\* the advisory lock
lockVars == <<enabled, lockFlag, err, lockIndex, lockColl>>

\* the version store
versionVars == <<arg, versionColl, lastWrite>>

\* the migration runs
migVars == <<cmds, run, trace, txn, data, runs, lastRun>>

vars == <<pc, transactionMode, lockVars, versionVars, migVars, lastRet, lastCause>>

NoArg == [version |-> 0, dirty |-> FALSE]

\* a write applied to the migrations collection: the call and the driver that
\* issued it, whether the client got the answer, how many documents it removed
Write(call, op, by, acked, removed) ==
    [call |-> call, op |-> op, by |-> by, acked |-> acked, removed |-> removed]

\* a returned call: who called what, the error returned, how many database
\* operations the call issued, and the (version, dirty) it returned or was given
Ret(op, by, e, dbOps, version, dirty) ==
    [op |-> op, by |-> by, err |-> e, dbOps |-> dbOps, version |-> version, dirty |-> dirty]

\* no driver constructed, an empty database
Init ==
    /\ pc = [i \in Drivers |-> "none"]
    /\ enabled = [i \in Drivers |-> FALSE]
    /\ transactionMode = [i \in Drivers |-> FALSE]
    /\ lockFlag = [i \in Drivers |-> 0]
    /\ err = [i \in Drivers |-> "nil"]
    /\ arg = [i \in Drivers |-> NoArg]
    /\ cmds = [i \in Drivers |-> <<>>]
    /\ run = [i \in Drivers |-> 0]
    /\ trace = [i \in Drivers |-> <<>>]
    /\ txn = [i \in Drivers |-> {}]
    /\ lockIndex = FALSE
    /\ lockColl = <<>>
    /\ versionColl = <<>>
    /\ data = {}
    /\ runs = 0
    /\ lastRun = [run |-> 0, of |-> 0, txn |-> FALSE, trace |-> <<>>]
    /\ lastWrite = Write("none", "none", 0, FALSE, 0)
    /\ lastRet = Ret("none", 0, "nil", 0, 0, FALSE)
    /\ lastCause = "nil"

\* ------------------------------------------------------------ construction
\* the *mongo.Client values a caller passes to NewDriver
Clients == {"nil", "live"}

\* prepareLockCollection: Indexes().CreateOne with SetUnique(true)
prepareLockCollection(o) == lockIndex' = (lockIndex \/ Applied(o))

\* NewDriver that returns the driver whatever prepareLockCollection returned
NewDriverOfIgnoreIndexError(i, client, database, locking, transactions, o) ==
    /\ pc[i] = "none"
    /\   IF database = ""
         THEN /\ lastRet' = Ret("NewDriver", i, "ErrNoDatabaseName", 0, 0, FALSE)
              /\ UNCHANGED <<pc, enabled, transactionMode, lockIndex>>
         ELSE IF client = "nil"
         THEN /\ lastRet' = Ret("NewDriver", i, "panic: nil pointer dereference", 0, 0, FALSE)
              /\ UNCHANGED <<pc, enabled, transactionMode, lockIndex>>
         ELSE IF ~locking
         THEN /\ pc' = [pc EXCEPT ![i] = "idle"]
              /\ enabled' = [enabled EXCEPT ![i] = FALSE]
              /\ transactionMode' = [transactionMode EXCEPT ![i] = transactions]
              /\ lastRet' = Ret("NewDriver", i, "nil", 0, 0, FALSE)
              /\ UNCHANGED lockIndex
         ELSE /\ prepareLockCollection(o)
              /\ pc' = [pc EXCEPT ![i] = "idle"]
              /\ enabled' = [enabled EXCEPT ![i] = TRUE]
              /\ transactionMode' = [transactionMode EXCEPT ![i] = transactions]
              /\ lastRet' = Ret("NewDriver", i, "nil", 1, 0, FALSE)
    /\ lastCause' = "nil"
    /\ UNCHANGED <<lockFlag, err, lockColl, versionVars, migVars>>

\* NewDriver(client, database, opts...), locking: WithLocking{Enabled: true}
\* is among the options, transactions: WithTransactions(true) is, o: the
\* outcome of the CreateOne call if one is made.  client.Database(name) reads
\* the fields of the client, so a nil client ends the call in a nil pointer
\* panic.
NewDriverOf(i, client, database, locking, transactions, o) ==
    /\ pc[i] = "none"
    /\   IF database = ""
         THEN /\ lastRet' = Ret("NewDriver", i, "ErrNoDatabaseName", 0, 0, FALSE)
              /\ UNCHANGED <<pc, enabled, transactionMode, lockIndex>>
         ELSE IF client = "nil"
         THEN /\ lastRet' = Ret("NewDriver", i, "panic: nil pointer dereference", 0, 0, FALSE)
              /\ UNCHANGED <<pc, enabled, transactionMode, lockIndex>>
         ELSE IF ~locking
         THEN /\ pc' = [pc EXCEPT ![i] = "idle"]
              /\ enabled' = [enabled EXCEPT ![i] = FALSE]
              /\ transactionMode' = [transactionMode EXCEPT ![i] = transactions]
              /\ lastRet' = Ret("NewDriver", i, "nil", 0, 0, FALSE)
              /\ UNCHANGED lockIndex
         ELSE /\ prepareLockCollection(o)
              /\ IF Acked(o)
                 THEN /\ pc' = [pc EXCEPT ![i] = "idle"]
                      /\ enabled' = [enabled EXCEPT ![i] = TRUE]
                      /\ transactionMode' = [transactionMode EXCEPT ![i] = transactions]
                      /\ lastRet' = Ret("NewDriver", i, "nil", 1, 0, FALSE)
                 ELSE /\ lastRet' = Ret("NewDriver", i, "CreateOne error", 1, 0, FALSE)
                      /\ UNCHANGED <<pc, enabled, transactionMode>>
    /\ lastCause' = "nil"
    /\ UNCHANGED <<lockFlag, err, lockColl, versionVars, migVars>>

\* the database names a caller passes to NewDriver
Databases == {"", "db"}

\* a process constructs its driver
NewDriver(i) ==
    \E client \in Clients, database \in Databases, locking \in BOOLEAN,
       transactions \in BOOLEAN, o \in WriteOutcomes :
        NewDriverOf(i, client, database, locking, transactions, o)

\* the process of driver i dies; its driver object, flag included, is gone,
\* and the server discards the transaction its session had open
Crash(i) ==
    /\ pc[i] # "none"
    /\ pc' = [pc EXCEPT ![i] = "none"]
    /\ enabled' = [enabled EXCEPT ![i] = FALSE]
    /\ transactionMode' = [transactionMode EXCEPT ![i] = FALSE]
    /\ lockFlag' = [lockFlag EXCEPT ![i] = 0]
    /\ err' = [err EXCEPT ![i] = "nil"]
    /\ arg' = [arg EXCEPT ![i] = NoArg]
    /\ cmds' = [cmds EXCEPT ![i] = <<>>]
    /\ run' = [run EXCEPT ![i] = 0]
    /\ trace' = [trace EXCEPT ![i] = <<>>]
    /\ txn' = [txn EXCEPT ![i] = {}]
    /\ UNCHANGED <<lockIndex, lockColl, versionColl, data, runs, lastRun, lastWrite, lastRet,
                   lastCause>>

\* ------------------------------------------------------------------ Close
\* a Close that gives up the lock flag of the instance
CloseClearsFlag(i) ==
    /\ pc[i] = "idle"
    /\ lockFlag' = [lockFlag EXCEPT ![i] = 0]
    /\ lastRet' = Ret("Close", i, "nil", 0, 0, FALSE)
    /\ lastCause' = "nil"
    /\ UNCHANGED <<pc, transactionMode, enabled, err, lockIndex, lockColl, versionVars, migVars>>

\* Close: there is nothing to clean up, the client belongs to the caller
Close(i) ==
    /\ pc[i] = "idle"
    /\ lastRet' = Ret("Close", i, "nil", 0, 0, FALSE)
    /\ lastCause' = "nil"
    /\ UNCHANGED <<pc, transactionMode, lockVars, versionVars, migVars>>

\* ------------------------------------------------------------------- Lock
\* Lock without the check of the local flag
LockNoFlagCheck(i) ==
    /\ pc[i] = "idle"
    /\ IF ~enabled[i]
       THEN /\ lastRet' = Ret("Lock", i, "nil", 0, 0, FALSE)
            /\ lastCause' = "nil"
            /\ UNCHANGED pc
       ELSE /\ pc' = [pc EXCEPT ![i] = "Lock_InsertOne"]
            /\ UNCHANGED <<lastRet, lastCause>>
    /\ UNCHANGED <<transactionMode, lockVars, versionVars, migVars>>

\* Lock without the check of cfg.Locking.Enabled
LockIgnoreEnabled(i) ==
    /\ pc[i] = "idle"
    /\ IF lockFlag[i] = 1
       THEN /\ lastRet' = Ret("Lock", i, "nil", 0, 0, FALSE)
            /\ lastCause' = "nil"
            /\ UNCHANGED pc
       ELSE /\ pc' = [pc EXCEPT ![i] = "Lock_InsertOne"]
            /\ UNCHANGED <<lastRet, lastCause>>
    /\ UNCHANGED <<transactionMode, lockVars, versionVars, migVars>>

\* Lock, up to the InsertOne call: the two early returns.  t is the thread
\* that makes the call (its position and its local err), d the driver
\* instance it calls Lock on (its cfg and its lockFlag)
LockOn(t, d) ==
    /\ pc[t] = "idle"
    /\ IF ~enabled[d] \/ lockFlag[d] = 1
       THEN /\ lastRet' = Ret("Lock", t, "nil", 0, 0, FALSE)
            /\ lastCause' = "nil"
            /\ UNCHANGED pc
       ELSE /\ pc' = [pc EXCEPT ![t] = "Lock_InsertOne"]
            /\ UNCHANGED <<lastRet, lastCause>>
    /\ UNCHANGED <<transactionMode, lockVars, versionVars, migVars>>

\* the process of driver i calls Lock on it
Lock(i) == LockOn(i, i)

\* InsertOne(ctx, newLockObj) as the server applies it
LockInsertOneOn(t, d) ==
    /\ pc[t] = "Lock_InsertOne"
    /\ \E o \in WriteOutcomes :
         LET out == IF DuplicateKey(lockColl, lockObj(d), lockIndex) THEN "failed" ELSE o
         IN /\ lockColl' = IF Applied(out) THEN Append(lockColl, lockObj(d)) ELSE lockColl
            /\ err' = [err EXCEPT ![t] = IF Acked(out) THEN "nil" ELSE "InsertOne error"]
    /\ pc' = [pc EXCEPT ![t] = "Lock_return"]
    /\ UNCHANGED <<enabled, lockFlag, lockIndex, transactionMode, versionVars, migVars,
                   lastRet, lastCause>>

LockInsertOne(i) == LockInsertOneOn(i, i)

\* Lock that inserts again when its InsertOne returned an error
LockReturnRetry(i) ==
    /\ pc[i] = "Lock_return"
    /\ IF err[i] # "nil"
       THEN /\ pc' = [pc EXCEPT ![i] = "Lock_InsertOne"]
            /\ UNCHANGED <<lockFlag, lastRet>>
       ELSE /\ lockFlag' = [lockFlag EXCEPT ![i] = 1]
            /\ lastRet' = Ret("Lock", i, "nil", 1, 0, FALSE)
            /\ pc' = [pc EXCEPT ![i] = "idle"]
    /\ lastCause' = "nil"
    /\ err' = [err EXCEPT ![i] = "nil"]
    /\ UNCHANGED <<enabled, lockIndex, lockColl, transactionMode, versionVars, migVars>>

\* Lock, after InsertOne returned
LockReturnOn(t, d) ==
    /\ pc[t] = "Lock_return"
    /\ IF err[t] # "nil"
       THEN /\ lastRet' = Ret("Lock", t, "ErrDatabaseLocked", 1, 0, FALSE)
            /\ UNCHANGED lockFlag
       ELSE /\ lockFlag' = [lockFlag EXCEPT ![d] = 1]
            /\ lastRet' = Ret("Lock", t, "nil", 1, 0, FALSE)
    /\ lastCause' = "nil"
    /\ pc' = [pc EXCEPT ![t] = "idle"]
    /\ err' = [err EXCEPT ![t] = "nil"]
    /\ UNCHANGED <<enabled, lockIndex, lockColl, transactionMode, versionVars, migVars>>

LockReturn(i) == LockReturnOn(i, i)

\* ----------------------------------------------------------------- Unlock
\* Unlock, up to the DeleteMany call: the two early returns
UnlockOn(t, d) ==
    /\ pc[t] = "idle"
    /\ IF ~enabled[d] \/ lockFlag[d] = 0
       THEN /\ lastRet' = Ret("Unlock", t, "nil", 0, 0, FALSE)
            /\ lastCause' = "nil"
            /\ UNCHANGED pc
       ELSE /\ pc' = [pc EXCEPT ![t] = "Unlock_DeleteMany"]
            /\ UNCHANGED <<lastRet, lastCause>>
    /\ UNCHANGED <<transactionMode, lockVars, versionVars, migVars>>

Unlock(i) == UnlockOn(i, i)

\* DeleteMany(ctx, lockFilter{Key: lockKeyUniqueValue}) as the server applies it
UnlockDeleteMany(i) ==
    /\ pc[i] = "Unlock_DeleteMany"
    /\ \E o \in WriteOutcomes :
         /\ lockColl' = IF Applied(o) THEN DeleteMany(lockColl, lockKeyUniqueValue) ELSE lockColl
         /\ err' = [err EXCEPT ![i] = IF Acked(o) THEN "nil" ELSE "DeleteMany error"]
    /\ pc' = [pc EXCEPT ![i] = "Unlock_return"]
    /\ UNCHANGED <<enabled, lockFlag, lockIndex, transactionMode, versionVars, migVars,
                   lastRet, lastCause>>

\* Unlock that clears the flag before looking at the error
UnlockReturnAlwaysStore(i) ==
    /\ pc[i] = "Unlock_return"
    /\ lockFlag' = [lockFlag EXCEPT ![i] = 0]
    /\ lastRet' = Ret("Unlock", i, err[i], 1, 0, FALSE)
    /\ lastCause' = "nil"
    /\ pc' = [pc EXCEPT ![i] = "idle"]
    /\ err' = [err EXCEPT ![i] = "nil"]
    /\ UNCHANGED <<enabled, lockIndex, lockColl, transactionMode, versionVars, migVars>>

\* Unlock, after DeleteMany returned
UnlockReturnOn(t, d) ==
    /\ pc[t] = "Unlock_return"
    /\ IF err[t] # "nil"
       THEN /\ lastRet' = Ret("Unlock", t, err[t], 1, 0, FALSE)
            /\ UNCHANGED lockFlag
       ELSE /\ lockFlag' = [lockFlag EXCEPT ![d] = 0]
            /\ lastRet' = Ret("Unlock", t, "nil", 1, 0, FALSE)
    /\ lastCause' = "nil"
    /\ pc' = [pc EXCEPT ![t] = "idle"]
    /\ err' = [err EXCEPT ![t] = "nil"]
    /\ UNCHANGED <<enabled, lockIndex, lockColl, transactionMode, versionVars, migVars>>

UnlockReturn(i) == UnlockReturnOn(i, i)
\* ---------------------------------------------------------- version store
\* FindOne(bson.M{}).Decode(&versionInfo): the error it returns
Decode(coll, o) ==
    IF o = "failed" THEN "FindOne error"
    ELSE IF coll = <<>> THEN "ErrNoDocuments"
    ELSE "nil"

\* a GetVersion without the case for mongo.ErrNoDocuments
GetVersionResultEmptyIsError(i, coll, o) ==
    IF Decode(coll, o) # "nil"
    THEN Ret("GetVersion", i, "failed to get migration version", 1, 0, FALSE)
    ELSE Ret("GetVersion", i, "nil", 1, ToUint64(coll[1].version), coll[1].dirty)

\* the switch of GetVersion on the error of Decode
GetVersionResult(i, coll, o) ==
    IF Decode(coll, o) = "ErrNoDocuments"
    THEN Ret("GetVersion", i, "nil", 1, NoMigrationVersion, FALSE)
    ELSE IF Decode(coll, o) # "nil"
    THEN Ret("GetVersion", i, "failed to get migration version", 1, 0, FALSE)
    ELSE Ret("GetVersion", i, "nil", 1, ToUint64(coll[1].version), coll[1].dirty)

GetVersion(i) ==
    /\ pc[i] = "idle"
    /\ \E o \in ReadOutcomes :
         /\ lastRet' = GetVersionResult(i, versionColl, o)
         /\ lastCause' = IF lastRet'.err = "nil" THEN "nil" ELSE Decode(versionColl, o)
    /\ UNCHANGED <<pc, transactionMode, lockVars, versionVars, migVars>>

\* a drop that reports its outcome but removes nothing
DropNothing(coll, o) == coll

\* Collection.Drop: removes every document of the collection
Drop(coll, o) == IF Applied(o) THEN <<>> ELSE coll

\* a SetVersion that goes on to the insert whatever its drop returned
SetVersionIgnoreDropError(i) ==
    /\ pc[i] = "idle"
    /\ \E version \in InputVersions, dirty \in BOOLEAN, o \in WriteOutcomes :
         /\ versionColl' = Drop(versionColl, o)
         /\ lastWrite' = IF Applied(o)
                         THEN Write("SetVersion", "Drop", i, Acked(o), Len(versionColl))
                         ELSE lastWrite
         /\ pc' = [pc EXCEPT ![i] = "SetVersion_InsertOne"]
         /\ arg' = [arg EXCEPT ![i] = [version |-> version, dirty |-> dirty]]
         /\ UNCHANGED <<lastRet, lastCause>>
    /\ UNCHANGED <<transactionMode, lockVars, migVars>>

\* SetVersion(version, dirty), up to the InsertOne call
SetVersion(i) ==
    /\ pc[i] = "idle"
    /\ \E version \in InputVersions, dirty \in BOOLEAN, o \in WriteOutcomes :
         /\ versionColl' = Drop(versionColl, o)
         /\ lastWrite' = IF Applied(o)
                         THEN Write("SetVersion", "Drop", i, Acked(o), Len(versionColl))
                         ELSE lastWrite
         /\ IF Acked(o)
            THEN /\ pc' = [pc EXCEPT ![i] = "SetVersion_InsertOne"]
                 /\ arg' = [arg EXCEPT ![i] = [version |-> version, dirty |-> dirty]]
                 /\ UNCHANGED <<lastRet, lastCause>>
            ELSE /\ lastRet' = Ret("SetVersion", i, "drop migrations collection failed", 1,
                                 version, dirty)
                 /\ lastCause' = "Drop error"
                 /\ UNCHANGED <<pc, arg>>
    /\ UNCHANGED <<transactionMode, lockVars, migVars>>

\* a SetVersion that reports a failed insert in the words of a failed drop
SetVersionInsertOneAsDropError(i) ==
    /\ pc[i] = "SetVersion_InsertOne"
    /\ \E o \in WriteOutcomes :
         /\ versionColl' = IF Applied(o)
                           THEN Append(versionColl, versionInfo(arg[i].version, arg[i].dirty))
                           ELSE versionColl
         /\ lastWrite' = IF Applied(o)
                         THEN Write("SetVersion", "InsertOne", i, Acked(o), 0)
                         ELSE lastWrite
         /\ lastRet' = Ret("SetVersion", i,
                           IF Acked(o) THEN "nil" ELSE "drop migrations collection failed",
                           2, arg[i].version, arg[i].dirty)
         /\ lastCause' = IF Acked(o) THEN "nil" ELSE "InsertOne error"
    /\ pc' = [pc EXCEPT ![i] = "idle"]
    /\ arg' = [arg EXCEPT ![i] = NoArg]
    /\ UNCHANGED <<transactionMode, lockVars, migVars>>

\* InsertOne(versionInfo{int64(version), dirty}) and the return of SetVersion
SetVersionInsertOne(i) ==
    /\ pc[i] = "SetVersion_InsertOne"
    /\ \E o \in WriteOutcomes :
         /\ versionColl' = IF Applied(o)
                           THEN Append(versionColl, versionInfo(arg[i].version, arg[i].dirty))
                           ELSE versionColl
         /\ lastWrite' = IF Applied(o)
                         THEN Write("SetVersion", "InsertOne", i, Acked(o), 0)
                         ELSE lastWrite
         /\ lastRet' = Ret("SetVersion", i, IF Acked(o) THEN "nil" ELSE "save version failed",
                           2, arg[i].version, arg[i].dirty)
         /\ lastCause' = IF Acked(o) THEN "nil" ELSE "InsertOne error"
    /\ pc' = [pc EXCEPT ![i] = "idle"]
    /\ arg' = [arg EXCEPT ![i] = NoArg]
    /\ UNCHANGED <<transactionMode, lockVars, migVars>>

\* Reset that drops the locking collection with the migrations collection
\* and clears the local flag
ResetDropsLock(i) ==
    /\ pc[i] = "idle"
    /\ \E o \in WriteOutcomes :
         /\ versionColl' = Drop(versionColl, o)
         /\ lockColl' = Drop(lockColl, o)
         /\ lockFlag' = IF Acked(o) THEN [lockFlag EXCEPT ![i] = 0] ELSE lockFlag
         /\ lastWrite' = IF Applied(o)
                         THEN Write("Reset", "Drop", i, Acked(o), Len(versionColl))
                         ELSE lastWrite
         /\ lastRet' = Ret("Reset", i, IF Acked(o) THEN "nil" ELSE "drop migrations collection failed",
                           1, 0, FALSE)
         /\ lastCause' = IF Acked(o) THEN "nil" ELSE "Drop error"
    /\ UNCHANGED <<pc, arg, transactionMode, enabled, err, lockIndex, migVars>>

\* Reset: drops the migrations collection
Reset(i) ==
    /\ pc[i] = "idle"
    /\ \E o \in WriteOutcomes :
         /\ versionColl' = Drop(versionColl, o)
         /\ lastWrite' = IF Applied(o)
                         THEN Write("Reset", "Drop", i, Acked(o), Len(versionColl))
                         ELSE lastWrite
         /\ lastRet' = Ret("Reset", i, IF Acked(o) THEN "nil" ELSE "drop migrations collection failed",
                           1, 0, FALSE)
         /\ lastCause' = IF Acked(o) THEN "nil" ELSE "Drop error"
    /\ UNCHANGED <<pc, arg, transactionMode, lockVars, migVars>>

\* ------------------------------------------------------------ RunMigration
\* the documents a migration file lists: each one is a database command
Commands == {"a", "b"}

\* the elements of a JSON array: a document, or a value that is no document
Elements == Commands \cup {"1"}

\* a migration io.Reader: whether reading it succeeds, the kind of JSON text
\* it holds ("invalid": no valid extended JSON, such as unquoted keys) and,
\* for an array, its elements
Payload(read, kind, elems) == [read |-> read, kind |-> kind, elems |-> elems]

Payloads ==
    {Payload(FALSE, "array", <<>>), Payload(TRUE, "object", <<>>),
     Payload(TRUE, "invalid", <<>>)}
    \cup {Payload(TRUE, "array", e) : e \in UNION {[1..m -> Elements] : m \in 0..MaxCmds}}

\* ioutil.ReadAll(migration): the error of the reader
ReadAll(payload) == IF payload.read THEN "nil" ELSE "read error"

\* an unmarshaling that takes any text and keeps the documents it finds
UnmarshalExtJSONLenient(payload) ==
    [err |-> "nil", cmds |-> SelectSeq(payload.elems, LAMBDA e : e \in Commands)]

\* bson.UnmarshalExtJSON(migr, true, &cmds) into a []bson.D: an array whose
\* elements are all documents, anything else is an error
UnmarshalExtJSON(payload) ==
    IF payload.kind = "array" /\ \A k \in 1..Len(payload.elems) : payload.elems[k] \in Commands
    THEN [err |-> "nil", cmds |-> payload.elems]
    ELSE [err |-> "unmarshaling json error", cmds |-> <<>>]

\* Msg of the DriverError of executeCommands: names the command by its content
ExecError(cmd) == "failed to execute command: " \o cmd

\* a call on the client or the session (cmd: the position in the batch of the
\* command a RunCommand issues, 0 for the other calls)
Call(call, cmd) == [call |-> call, cmd |-> cmd]

\* the RunCommand calls of a trace
Issued(t) == SelectSeq(t, LAMBDA c : c.call = "RunCommand")

\* what command k of the batch that driver i is issuing leaves in the database
Effect(i, k) == [run |-> run[i], cmd |-> k]

\* a finished RunMigration: the number of its batch (0 if it issued none), the
\* length of the batch, the mode, and the calls it made
Run(r, n, mode, t) == [run |-> r, of |-> n, txn |-> mode, trace |-> t]

\* RunMigration of driver i returns e after the calls t for batch r of n commands
Finish(i, r, n, t, e, cause) ==
    /\ lastRet' = Ret("RunMigration", i, e, Len(t), 0, FALSE)
    /\ lastCause' = cause
    /\ lastRun' = Run(r, n, transactionMode[i], t)
    /\ pc' = [pc EXCEPT ![i] = "idle"]
    /\ cmds' = [cmds EXCEPT ![i] = <<>>]
    /\ run' = [run EXCEPT ![i] = 0]
    /\ trace' = [trace EXCEPT ![i] = <<>>]

\* RunMigration of driver i goes on to the step at after the calls t
Continue(i, t, at) ==
    /\ pc' = [pc EXCEPT ![i] = at]
    /\ trace' = [trace EXCEPT ![i] = t]
    /\ UNCHANGED <<cmds, run, lastRet, lastCause, lastRun>>

\* RunMigration(migration), up to the first database round trip: ReadAll,
\* UnmarshalExtJSON and, in transaction mode, UseSession and StartTransaction
RunMigrationOf(i, payload) ==
    /\ pc[i] = "idle"
    /\   LET parsed == UnmarshalExtJSON(payload)
             e == IF ReadAll(payload) # "nil" THEN ReadAll(payload) ELSE parsed.err
             n == Len(parsed.cmds)
             session == <<Call("StartSession", 0)>>
             started == <<Call("StartSession", 0), Call("StartTransaction", 0)>>
         IN IF e # "nil"
            THEN /\ Finish(i, 0, 0, <<>>, e, "nil")
                 /\ UNCHANGED runs
            ELSE /\ runs < MaxRuns
                 /\ runs' = runs + 1
                 /\ IF ~transactionMode[i] /\ n = 0
                    THEN Finish(i, runs + 1, n, <<>>, "nil", "nil")
                    ELSE IF ~transactionMode[i]
                    THEN /\ pc' = [pc EXCEPT ![i] = "RunCommand"]
                         /\ cmds' = [cmds EXCEPT ![i] = parsed.cmds]
                         /\ run' = [run EXCEPT ![i] = runs + 1]
                         /\ trace' = [trace EXCEPT ![i] = <<>>]
                         /\ UNCHANGED <<lastRet, lastCause, lastRun>>
                    ELSE \E oSession \in ReadOutcomes, oStart \in ReadOutcomes :
                         IF oSession = "failed"
                         THEN Finish(i, runs + 1, n, session, "StartSession error", "nil")
                         ELSE IF oStart = "failed"
                         THEN Finish(i, runs + 1, n, Append(started, Call("EndSession", 0)),
                                     "failed to start transaction", "StartTransaction error")
                         ELSE /\ pc' = [pc EXCEPT ![i] = IF n = 0 THEN "CommitTransaction"
                                                         ELSE "RunCommand"]
                              /\ cmds' = [cmds EXCEPT ![i] = parsed.cmds]
                              /\ run' = [run EXCEPT ![i] = runs + 1]
                              /\ trace' = [trace EXCEPT ![i] = started]
                              /\ UNCHANGED <<lastRet, lastCause, lastRun>>
    /\ UNCHANGED <<transactionMode, txn, data, lockVars, versionVars>>

\* a driver is given a migration to run
RunMigration(i) == \E migration \in Payloads : RunMigrationOf(i, migration)

\* the loop of executeCommands that goes on to the next command after an error
RunCommandContinueOnError(i) ==
    /\ pc[i] = "RunCommand"
    /\ \E o \in WriteOutcomes :
         LET k == Len(Issued(trace[i])) + 1
             n == Len(cmds[i])
             t == Append(trace[i], Call("RunCommand", k))
             ended == IF transactionMode[i] THEN Append(t, Call("EndSession", 0)) ELSE t
         IN /\ IF transactionMode[i]
               THEN /\ txn' = [txn EXCEPT ![i] = IF Acked(o) THEN @ \cup {Effect(i, k)} ELSE {}]
                    /\ UNCHANGED data
               ELSE /\ data' = IF Applied(o) THEN data \cup {Effect(i, k)} ELSE data
                    /\ UNCHANGED txn
            /\ IF k < n
               THEN Continue(i, t, "RunCommand")
               ELSE IF ~Acked(o)
               THEN Finish(i, run[i], n, ended, ExecError(cmds[i][k]), "RunCommand error")
               ELSE IF transactionMode[i]
               THEN Continue(i, t, "CommitTransaction")
               ELSE Finish(i, run[i], n, t, "nil", "nil")
    /\ UNCHANGED <<transactionMode, runs, lockVars, versionVars>>

\* the callback of UseSession that goes on to the commit after a command failed
RunCommandCommitAfterError(i) ==
    /\ pc[i] = "RunCommand"
    /\ \E o \in WriteOutcomes :
         LET k == Len(Issued(trace[i])) + 1
             n == Len(cmds[i])
             t == Append(trace[i], Call("RunCommand", k))
         IN /\ IF transactionMode[i]
               THEN /\ txn' = [txn EXCEPT ![i] = IF Acked(o) THEN @ \cup {Effect(i, k)} ELSE {}]
                    /\ UNCHANGED data
               ELSE /\ data' = IF Applied(o) THEN data \cup {Effect(i, k)} ELSE data
                    /\ UNCHANGED txn
            /\ IF ~Acked(o) /\ ~transactionMode[i]
               THEN Finish(i, run[i], n, t, ExecError(cmds[i][k]), "RunCommand error")
               ELSE IF Acked(o) /\ k < n
               THEN Continue(i, t, "RunCommand")
               ELSE IF transactionMode[i]
               THEN Continue(i, t, "CommitTransaction")
               ELSE Finish(i, run[i], n, t, "nil", "nil")
    /\ UNCHANGED <<transactionMode, runs, lockVars, versionVars>>

\* commands that take effect at once although a transaction is open
RunCommandOutsideTransaction(i) ==
    /\ pc[i] = "RunCommand"
    /\ \E o \in WriteOutcomes :
         LET k == Len(Issued(trace[i])) + 1
             n == Len(cmds[i])
             t == Append(trace[i], Call("RunCommand", k))
             ended == IF transactionMode[i] THEN Append(t, Call("EndSession", 0)) ELSE t
         IN /\ data' = IF Applied(o) THEN data \cup {Effect(i, k)} ELSE data
            /\ UNCHANGED txn
            /\ IF ~Acked(o)
               THEN Finish(i, run[i], n, ended, ExecError(cmds[i][k]), "RunCommand error")
               ELSE IF k < n
               THEN Continue(i, t, "RunCommand")
               ELSE IF transactionMode[i]
               THEN Continue(i, t, "CommitTransaction")
               ELSE Finish(i, run[i], n, t, "nil", "nil")
    /\ UNCHANGED <<transactionMode, runs, lockVars, versionVars>>

\* one pass of the loop of executeCommands: RunCommand(ctx, cmd).Err() for the
\* next command of the batch.  Inside a transaction the effect is held back
\* until the commit; a command that fails there ends the transaction (the
\* server aborts it, and the EndSession that UseSession defers discards what
\* is left), the driver itself calls no abort.
RunCommand(i) ==
    /\ pc[i] = "RunCommand"
    /\ \E o \in WriteOutcomes :
         LET k == Len(Issued(trace[i])) + 1
             n == Len(cmds[i])
             t == Append(trace[i], Call("RunCommand", k))
             ended == IF transactionMode[i] THEN Append(t, Call("EndSession", 0)) ELSE t
         IN /\ IF transactionMode[i]
               THEN /\ txn' = [txn EXCEPT ![i] = IF Acked(o) THEN @ \cup {Effect(i, k)} ELSE {}]
                    /\ UNCHANGED data
               ELSE /\ data' = IF Applied(o) THEN data \cup {Effect(i, k)} ELSE data
                    /\ UNCHANGED txn
            /\ IF ~Acked(o)
               THEN Finish(i, run[i], n, ended, ExecError(cmds[i][k]), "RunCommand error")
               ELSE IF k < n
               THEN Continue(i, t, "RunCommand")
               ELSE IF transactionMode[i]
               THEN Continue(i, t, "CommitTransaction")
               ELSE Finish(i, run[i], n, t, "nil", "nil")
    /\ UNCHANGED <<transactionMode, runs, lockVars, versionVars>>

\* a commit whose error is not returned
CommitTransactionSwallowError(i) ==
    /\ pc[i] = "CommitTransaction"
    /\ \E o \in WriteOutcomes :
         LET t == trace[i] \o <<Call("CommitTransaction", 0), Call("EndSession", 0)>>
         IN /\ data' = IF Applied(o) THEN data \cup txn[i] ELSE data
            /\ Finish(i, run[i], Len(cmds[i]), t, "nil", "nil")
    /\ txn' = [txn EXCEPT ![i] = {}]
    /\ UNCHANGED <<transactionMode, runs, lockVars, versionVars>>

\* sessionContext.CommitTransaction after the last command succeeded, the
\* return of the callback and the EndSession that UseSession defers
CommitTransaction(i) ==
    /\ pc[i] = "CommitTransaction"
    /\ \E o \in WriteOutcomes :
         LET t == trace[i] \o <<Call("CommitTransaction", 0), Call("EndSession", 0)>>
         IN /\ data' = IF Applied(o) THEN data \cup txn[i] ELSE data
            /\ IF Acked(o)
               THEN Finish(i, run[i], Len(cmds[i]), t, "nil", "nil")
               ELSE Finish(i, run[i], Len(cmds[i]), t, "failed to commit transaction",
                           "CommitTransaction error")
    /\ txn' = [txn EXCEPT ![i] = {}]
    /\ UNCHANGED <<transactionMode, runs, lockVars, versionVars>>

\* ------------------------------------------------------------- no answer
\* the contexts the operations are issued under: Lock and Unlock derive theirs
\* from context.WithTimeout(context.Background(), contextWaitTimeout), every
\* other operation is given context.TODO(), which has no deadline
Context(op) ==
    IF op \in {"Lock.InsertOne", "Unlock.DeleteMany"} THEN "contextWaitTimeout" ELSE "TODO"

\* the operations a driver at position p is about to issue
Pending(p) ==
    CASE p = "idle" -> {"GetVersion.FindOne", "SetVersion.Drop", "Reset.Drop"}
      [] p = "Lock_InsertOne" -> {"Lock.InsertOne"}
      [] p = "Unlock_DeleteMany" -> {"Unlock.DeleteMany"}
      [] p = "SetVersion_InsertOne" -> {"SetVersion.InsertOne"}
      [] p = "RunCommand" -> {"RunMigration.RunCommand"}
      [] p = "CommitTransaction" -> {"RunMigration.CommitTransaction"}
      [] OTHER -> {}

Operations ==
    {"Lock.InsertOne", "Unlock.DeleteMany", "GetVersion.FindOne", "SetVersion.Drop",
     "SetVersion.InsertOne", "Reset.Drop", "RunMigration.RunCommand",
     "RunMigration.CommitTransaction"}

\* the position of a driver inside an operation that does not return
Blocked(op) == "blocked in " \o op

\* the database never answers the operation driver i issues.  Under a
\* context with a deadline the operation returns the context's error when the
\* deadline expires, which is an error outcome of the operation's own step;
\* under context.TODO() the operation, and with it the call, does not return.
Unanswered(i) ==
    /\ \E op \in Pending(pc[i]) :
         /\ Context(op) = "TODO"
         /\ pc' = [pc EXCEPT ![i] = Blocked(op)]
    /\ UNCHANGED <<transactionMode, lockVars, versionVars, migVars, lastRet, lastCause>>

\* ----------------------------------------------------------- specification
Next ==
    \E i \in Drivers :
        \/ NewDriver(i)
        \/ Crash(i)
        \/ Close(i)
        \/ Lock(i)
        \/ LockInsertOne(i)
        \/ LockReturn(i)
        \/ Unlock(i)
        \/ UnlockDeleteMany(i)
        \/ UnlockReturn(i)
        \/ GetVersion(i)
        \/ SetVersion(i)
        \/ SetVersionInsertOne(i)
        \/ Reset(i)
        \/ RunMigration(i)
        \/ RunCommand(i)
        \/ CommitTransaction(i)
        \/ Unanswered(i)

Spec == Init /\ [][Next]_vars

\* the advisory lock alone: construction (without WithTransactions, which no
\* step of the lock reads), crashes, Lock and Unlock
NextLock ==
    \E i \in Drivers :
        \/ NewDriver(i) /\ ~transactionMode'[i]
        \/ Crash(i)
        \/ Lock(i)
        \/ LockInsertOne(i)
        \/ LockReturn(i)
        \/ Unlock(i)
        \/ UnlockDeleteMany(i)
        \/ UnlockReturn(i)

SpecLock == Init /\ [][NextLock]_vars

\* every driver constructed by NewDriver(client, "db") without WithLocking
\* and without WithTransactions
InitConstructed ==
    /\ pc = [i \in Drivers |-> "idle"]
    /\ enabled = [i \in Drivers |-> FALSE]
    /\ transactionMode = [i \in Drivers |-> FALSE]
    /\ lockFlag = [i \in Drivers |-> 0]
    /\ err = [i \in Drivers |-> "nil"]
    /\ arg = [i \in Drivers |-> NoArg]
    /\ cmds = [i \in Drivers |-> <<>>]
    /\ run = [i \in Drivers |-> 0]
    /\ trace = [i \in Drivers |-> <<>>]
    /\ txn = [i \in Drivers |-> {}]
    /\ lockIndex = FALSE
    /\ lockColl = <<>>
    /\ versionColl = <<>>
    /\ data = {}
    /\ runs = 0
    /\ lastRun = [run |-> 0, of |-> 0, txn |-> FALSE, trace |-> <<>>]
    /\ lastWrite = Write("none", "none", 0, FALSE, 0)
    /\ lastRet = Ret("NewDriver", NumDrivers, "nil", 0, 0, FALSE)
    /\ lastCause = "nil"

\* the version store alone: crashes, GetVersion, SetVersion, Reset
NextVersion ==
    \E i \in Drivers :
        \/ Crash(i)
        \/ GetVersion(i)
        \/ SetVersion(i)
        \/ SetVersionInsertOne(i)
        \/ Reset(i)

SpecVersion == InitConstructed /\ [][NextVersion]_vars

\* the version store when its writers do not overlap (the callers serialise
\* their migration runs): no SetVersion or Reset starts while another driver
\* is between the drop and the insert of its SetVersion; reads are free
NoSetVersionInProgress == \A j \in Drivers : pc[j] # "SetVersion_InsertOne"

NextVersionSerial ==
    \E i \in Drivers :
        \/ Crash(i)
        \/ GetVersion(i)
        \/ NoSetVersionInProgress /\ SetVersion(i)
        \/ SetVersionInsertOne(i)
        \/ NoSetVersionInProgress /\ Reset(i)

SpecVersionSerial == InitConstructed /\ [][NextVersionSerial]_vars

\* every driver constructed by NewDriver(client, "db", WithLocking(
\* LockingConfig{Enabled: true})), and driver 1 has taken the lock
InitLockHeld ==
    /\ pc = [i \in Drivers |-> "idle"]
    /\ enabled = [i \in Drivers |-> TRUE]
    /\ transactionMode = [i \in Drivers |-> FALSE]
    /\ lockFlag = [i \in Drivers |-> IF i = 1 THEN 1 ELSE 0]
    /\ err = [i \in Drivers |-> "nil"]
    /\ arg = [i \in Drivers |-> NoArg]
    /\ cmds = [i \in Drivers |-> <<>>]
    /\ run = [i \in Drivers |-> 0]
    /\ trace = [i \in Drivers |-> <<>>]
    /\ txn = [i \in Drivers |-> {}]
    /\ lockIndex = TRUE
    /\ lockColl = <<lockObj(1)>>
    /\ versionColl = <<>>
    /\ data = {}
    /\ runs = 0
    /\ lastRun = [run |-> 0, of |-> 0, txn |-> FALSE, trace |-> <<>>]
    /\ lastWrite = Write("none", "none", 0, FALSE, 0)
    /\ lastRet = Ret("Lock", 1, "nil", 1, 0, FALSE)
    /\ lastCause = "nil"

\* the version store while the advisory lock is held and released: Unlock,
\* GetVersion, SetVersion and Reset, the writers of the version store not
\* overlapping
NextReset ==
    \E i \in Drivers :
        \/ Unlock(i)
        \/ UnlockDeleteMany(i)
        \/ UnlockReturn(i)
        \/ GetVersion(i)
        \/ NoSetVersionInProgress /\ SetVersion(i)
        \/ SetVersionInsertOne(i)
        \/ NoSetVersionInProgress /\ Reset(i)

SpecReset == InitLockHeld /\ [][NextReset]_vars

\* every driver constructed by NewDriver(client, "db") without WithLocking, all
\* of them with WithTransactions(true) or all of them without
InitMigration ==
    /\ pc = [i \in Drivers |-> "idle"]
    /\ enabled = [i \in Drivers |-> FALSE]
    /\ \E transactions \in BOOLEAN : transactionMode = [i \in Drivers |-> transactions]
    /\ lockFlag = [i \in Drivers |-> 0]
    /\ err = [i \in Drivers |-> "nil"]
    /\ arg = [i \in Drivers |-> NoArg]
    /\ cmds = [i \in Drivers |-> <<>>]
    /\ run = [i \in Drivers |-> 0]
    /\ trace = [i \in Drivers |-> <<>>]
    /\ txn = [i \in Drivers |-> {}]
    /\ lockIndex = FALSE
    /\ lockColl = <<>>
    /\ versionColl = <<>>
    /\ data = {}
    /\ runs = 0
    /\ lastRun = [run |-> 0, of |-> 0, txn |-> FALSE, trace |-> <<>>]
    /\ lastWrite = Write("none", "none", 0, FALSE, 0)
    /\ lastRet = Ret("NewDriver", NumDrivers, "nil", 0, 0, FALSE)
    /\ lastCause = "nil"

\* no driver is inside a RunMigration
NoRunInProgress == \A j \in Drivers : pc[j] \notin {"RunCommand", "CommitTransaction"}

\* the migration runs alone, crashes and RunMigration, when the callers do not
\* let the runs of two drivers overlap (they take the advisory lock first)
NextMigration ==
    \E i \in Drivers :
        \/ Crash(i)
        \/ NoRunInProgress /\ RunMigration(i)
        \/ RunCommand(i)
        \/ CommitTransaction(i)

SpecMigration == InitMigration /\ [][NextMigration]_vars

\* the migration runs of drivers that stay alive
NextMigrationAlive ==
    \E i \in Drivers :
        \/ NoRunInProgress /\ RunMigration(i)
        \/ RunCommand(i)
        \/ CommitTransaction(i)

SpecMigrationAlive == InitMigration /\ [][NextMigrationAlive]_vars

\* every driver constructed by NewDriver(client, "db", WithLocking(
\* LockingConfig{Enabled: true}), WithTransactions(b)), with the same b; the
\* lock is free or the last driver has taken it
InitCalls ==
    /\ pc = [i \in Drivers |-> "idle"]
    /\ enabled = [i \in Drivers |-> TRUE]
    /\ \E transactions \in BOOLEAN : transactionMode = [i \in Drivers |-> transactions]
    /\ \E held \in BOOLEAN :
         /\ lockFlag = [i \in Drivers |-> IF held /\ i = NumDrivers THEN 1 ELSE 0]
         /\ lockColl = IF held THEN <<lockObj(NumDrivers)>> ELSE <<>>
    /\ err = [i \in Drivers |-> "nil"]
    /\ arg = [i \in Drivers |-> NoArg]
    /\ cmds = [i \in Drivers |-> <<>>]
    /\ run = [i \in Drivers |-> 0]
    /\ trace = [i \in Drivers |-> <<>>]
    /\ txn = [i \in Drivers |-> {}]
    /\ lockIndex = TRUE
    /\ versionColl = <<>>
    /\ data = {}
    /\ runs = 0
    /\ lastRun = [run |-> 0, of |-> 0, txn |-> FALSE, trace |-> <<>>]
    /\ lastWrite = Write("none", "none", 0, FALSE, 0)
    /\ lastRet = Ret("NewDriver", NumDrivers, "nil", 1, 0, FALSE)
    /\ lastCause = "nil"

\* the process whose calls SpecCalls follows
Caller == 1

\* a migration file of two commands
TwoCommands == Payload(TRUE, "array", <<"a", "b">>)

\* every method of the driver, called in any order by one process, with a
\* migration file of two commands
NextCalls ==
    \/ Close(Caller)
    \/ Lock(Caller)
    \/ LockInsertOne(Caller)
    \/ LockReturn(Caller)
    \/ Unlock(Caller)
    \/ UnlockDeleteMany(Caller)
    \/ UnlockReturn(Caller)
    \/ GetVersion(Caller)
    \/ SetVersion(Caller)
    \/ SetVersionInsertOne(Caller)
    \/ Reset(Caller)
    \/ RunMigrationOf(Caller, TwoCommands)
    \/ RunCommand(Caller)
    \/ CommitTransaction(Caller)

SpecCalls == InitCalls /\ [][NextCalls]_vars

\* the calls of one process on a database that may stop answering
NextUnanswered ==
    \/ NextCalls
    \/ Unanswered(Caller)

SpecUnanswered == InitCalls /\ [][NextUnanswered]_vars

\* the driver instance that the threads of one process share
Shared == 1

\* the instance constructed with locking enabled, the lock free
InitShared == InitCalls /\ lockColl = <<>> /\ ~transactionMode[Shared]

\* Lock and Unlock called on one driver instance by several threads of its
\* process: each thread t \in Drivers has its own position pc[t] and its own
\* local err[t], all of them read and write lockFlag[Shared]
NextShared ==
    \E t \in Drivers :
        \/ LockOn(t, Shared)
        \/ LockInsertOneOn(t, Shared)
        \/ LockReturnOn(t, Shared)
        \/ UnlockOn(t, Shared)
        \/ UnlockDeleteMany(t)
        \/ UnlockReturnOn(t, Shared)

SpecShared == InitShared /\ [][NextShared]_vars

\* every driver constructed with locking enabled on one database, the lock
\* free, each driver owned by a process of its own that stays alive
InitLockAlive == InitShared

\* Lock and Unlock calls of the drivers, interleaved at their database
\* operations; no process dies
NextLockAlive ==
    \E i \in Drivers :
        \/ Lock(i)
        \/ LockInsertOne(i)
        \/ LockReturn(i)
        \/ Unlock(i)
        \/ UnlockDeleteMany(i)
        \/ UnlockReturn(i)

SpecLockAlive == InitLockAlive /\ [][NextLockAlive]_vars

\* ------------------------------------------------------------------- types
TypeOK ==
    /\ pc \in [Drivers -> {"none", "idle", "Lock_InsertOne", "Lock_return",
                           "Unlock_DeleteMany", "Unlock_return", "SetVersion_InsertOne",
                           "RunCommand", "CommitTransaction"}
                             \cup {Blocked(op) : op \in Operations}]
    /\ enabled \in [Drivers -> BOOLEAN]
    /\ transactionMode \in [Drivers -> BOOLEAN]
    /\ lockFlag \in [Drivers -> {0, 1}]
    /\ lockIndex \in BOOLEAN
    /\ runs \in 0..MaxRuns
    /\ \A i \in Drivers : Len(cmds[i]) <= MaxCmds /\ run[i] \in 0..MaxRuns
    /\ lastRun.run \in 0..MaxRuns /\ lastRun.of \in 0..MaxCmds
    /\ lastWrite.op \in {"none", "Drop", "InsertOne"}
    /\ lastRet.dbOps \in 0..(MaxCmds + 4)
    /\ lastRet.version \in 0..(2 ^ WordBits - 1)
    /\ \A k \in 1..Len(versionColl) :
         versionColl[k].version \in -(2 ^ (WordBits - 1))..(2 ^ (WordBits - 1) - 1)

\* ================================================================== claims
Locked == {i \in Drivers : lockFlag[i] = 1}

HasKey(coll, key) == \E k \in 1..Len(coll) : coll[k].locking_key = key

HasPid(coll, p) == \E k \in 1..Len(coll) : coll[k].pid = p

LockSteps == {"Lock_InsertOne", "Lock_return", "Unlock_DeleteMany", "Unlock_return"}

\* C1: in every reachable state at most one driver instance has its local
\* lock flag set to locked.
MutualExclusion == Cardinality(Locked) <= 1

\* mutual exclusion among the drivers that are not inside a call; a violation
\* of it is not the passing effect of an Unlock that has deleted the record
\* and not yet cleared its flag
MutualExclusionAtRest ==
    Cardinality({i \in Locked : pc[i] = "idle"}) <= 1

\* C2: once the unique index exists, the locking collection holds at most one
\* lock record, and every record it holds has locking_key = lockKeyUniqueValue.
AtMostOneLockRecord ==
    lockIndex =>
        /\ Len(lockColl) <= 1
        /\ \A k \in 1..Len(lockColl) : lockColl[k].locking_key = lockKeyUniqueValue

\* a record is held and another driver's insert has just been rejected
AtMostOneLockRecord_Witness ==
    /\ Len(lockColl) = 1
    /\ \E i \in Drivers :
         /\ pc[i] = "Lock_return"
         /\ err[i] # "nil"
         /\ lockColl[1].pid # i

\* C3: a Lock whose insert fails returns exactly ErrDatabaseLocked, leaves the
\* local flag unlocked, and its insert leaves the locking collection unchanged.
FailedLockChangesNothing ==
    [][\A i \in Drivers :
         /\ (LockInsertOne(i) /\ err'[i] # "nil") => lockColl' = lockColl
         /\ (LockReturn(i) /\ err[i] # "nil") =>
               /\ lastRet' = Ret("Lock", i, "ErrDatabaseLocked", 1, 0, FALSE)
               /\ lockFlag'[i] = 0]_vars

\* C4: an Unlock whose delete fails returns an error and leaves the flag
\* locked; the flag of a live driver goes from locked to unlocked only in the
\* return of an Unlock whose delete reported success.
UnlockFailSafe ==
    [][\A i \in Drivers :
         /\ (UnlockReturn(i) /\ err[i] # "nil") =>
               /\ lastRet'.op = "Unlock" /\ lastRet'.by = i /\ lastRet'.err # "nil"
               /\ lockFlag'[i] = 1
         /\ (lockFlag[i] = 1 /\ lockFlag'[i] = 0 /\ pc'[i] # "none") =>
               /\ pc[i] = "Unlock_return" /\ err[i] = "nil"
               /\ lastRet' = Ret("Unlock", i, "nil", 1, 0, FALSE)]_vars

\* an Unlock has returned an error and its driver still has the flag locked
UnlockFailSafe_Witness ==
    /\ lastRet.op = "Unlock" /\ lastRet.err # "nil"
    /\ pc[lastRet.by] = "idle"
    /\ lockFlag[lastRet.by] = 1

\* C5: once the local flag is locked, the driver is never at the insert of a
\* Lock, and every further Lock returns success at once: no insert is
\* attempted, the collection and the flag stay as they are.
LockIdempotent ==
    [][\A i \in Drivers :
         lockFlag[i] = 1 =>
            /\ pc[i] \notin {"Lock_InsertOne", "Lock_return"}
            /\ Lock(i) =>
                  /\ lastRet' = Ret("Lock", i, "nil", 0, 0, FALSE)
                  /\ pc'[i] = "idle"
                  /\ lockColl' = lockColl
                  /\ lockFlag'[i] = 1]_vars

\* a Lock on an already locked driver has returned without a database operation
LockIdempotent_Witness ==
    /\ lastRet = Ret("Lock", lastRet.by, "nil", 0, 0, FALSE)
    /\ lastRet.by \in Drivers
    /\ enabled[lastRet.by]
    /\ lockFlag[lastRet.by] = 1
    /\ HasPid(lockColl, lastRet.by)

\* C6: a successful delete of Unlock leaves no record under the lock key; when
\* that Unlock returns, the flag is unlocked and no record of this driver is
\* left; an Unlock on an unlocked flag returns success without a delete and
\* leaves the flag unlocked.
UnlockReleases ==
    [][\A i \in Drivers :
         /\ (UnlockDeleteMany(i) /\ err'[i] = "nil") =>
               ~HasKey(lockColl', lockKeyUniqueValue)
         /\ (UnlockReturn(i) /\ err[i] = "nil") =>
               /\ lockFlag'[i] = 0
               /\ ~HasPid(lockColl', i)
               /\ lastRet' = Ret("Unlock", i, "nil", 1, 0, FALSE)
         /\ (Unlock(i) /\ enabled[i] /\ lockFlag[i] = 0) =>
               /\ lastRet' = Ret("Unlock", i, "nil", 0, 0, FALSE)
               /\ pc'[i] = "idle"
               /\ lockColl' = lockColl
               /\ lockFlag'[i] = 0]_vars

\* a locked driver (it had locked successfully) has unlocked successfully
UnlockReleases_Witness ==
    /\ lastRet = Ret("Unlock", lastRet.by, "nil", 1, 0, FALSE)
    /\ lastRet.by \in Drivers
    /\ pc[lastRet.by] = "idle"
    /\ lockFlag[lastRet.by] = 0
    /\ lockColl = <<>>

\* C7: a driver with locking disabled never has its flag locked and is never
\* at a database step of Lock or Unlock; each of its Lock and Unlock calls
\* returns success with no database operation and changes nothing.
DisabledLockingIsNoOp ==
    [][\A i \in Drivers :
         (pc[i] # "none" /\ ~enabled[i]) =>
            /\ lockFlag[i] = 0
            /\ pc[i] \notin LockSteps
            /\ (Lock(i) \/ Unlock(i)) =>
                  /\ lastRet'.by = i /\ lastRet'.err = "nil" /\ lastRet'.dbOps = 0
                  /\ pc'[i] = "idle"
                  /\ lockColl' = lockColl
                  /\ lockFlag'[i] = 0]_vars

\* a driver with locking disabled has called Lock while another holds the lock
DisabledLockingIsNoOp_Witness ==
    /\ lastRet.op = "Lock"
    /\ lastRet.by \in Drivers
    /\ pc[lastRet.by] = "idle"
    /\ ~enabled[lastRet.by]
    /\ lockFlag[lastRet.by] = 0
    /\ \E j \in Drivers : lockFlag[j] = 1 /\ HasPid(lockColl, j)

\* C8: in every reachable state the version collection holds zero or one
\* document, whatever SetVersion, Reset and GetVersion calls the drivers
\* interleave.
AtMostOneVersionDocument == Len(versionColl) <= 1

\* C8 as amended: a step takes the version collection from at most one
\* document to more than one only if it is the insert of a SetVersion that
\* another driver's write has separated from its drop; as long as no two
\* SetVersion calls overlap, the collection holds zero or one document.
AtMostOneVersionDocumentUnlessOverlap ==
    [][Len(versionColl') > 1 =>
          \/ Len(versionColl) > 1
          \/ \E i \in Drivers :
                SetVersionInsertOne(i) /\ ~(lastWrite.op = "Drop" /\ lastWrite.by = i)]_vars

\* a SetVersion has stored its document, the only one, while another driver
\* is between the drop and the insert of its own SetVersion
AtMostOneVersionDocumentUnlessOverlap_Witness ==
    /\ Len(versionColl) = 1
    /\ lastWrite.op = "InsertOne" /\ lastWrite.acked
    /\ pc[lastWrite.by] = "idle"
    /\ \E j \in Drivers : pc[j] = "SetVersion_InsertOne"

\* the database's last write to the migrations collection is the acknowledged
\* insert of the SetVersion call that was the last call to return
JustSetVersion ==
    /\ lastRet.op = "SetVersion" /\ lastRet.err = "nil"
    /\ lastWrite = Write("SetVersion", "InsertOne", lastRet.by, TRUE, 0)

Interrupted(i) ==
    /\ lastWrite.call = "SetVersion" /\ lastWrite.op = "Drop"
    /\ lastWrite.by = i /\ lastWrite.acked
    /\ pc[i] # "SetVersion_InsertOne"

\* the last call to return is a SetVersion of driver i whose insert returned
\* an error
InsertFailed(i) == lastRet = Ret("SetVersion", i, "save version failed", 2,
                                 lastRet.version, lastRet.dirty)

\* C10: when a SetVersion is interrupted after its drop and before its insert
\* completes (its driver crashes, or the insert fails), a following GetVersion
\* returns NoMigrationVersion and dirty=false; from the drop on, a GetVersion
\* never returns the document that was stored before the call.
FailTowardNoVersionAlways ==
    [][\A i, j \in Drivers :
         /\ ((Interrupted(i) \/ pc[i] = "SetVersion_InsertOne" \/ InsertFailed(i))
               /\ GetVersion(j) /\ lastRet'.err = "nil") =>
               lastRet' = Ret("GetVersion", j, "nil", 1, NoMigrationVersion, FALSE)
         /\ SetVersionInsertOne(i) =>
               versionColl' \in {<<>>, <<versionInfo(arg[i].version, arg[i].dirty)>>}]_vars

\* C10 as amended: after a crash between the drop and the insert, or an
\* insert that failed without effect, a following GetVersion returns
\* NoMigrationVersion and dirty=false; after an insert that returned an error
\* although the database applied it, it returns the new (version, dirty).
\* From the drop on, the collection is empty until the insert and holds
\* nothing but the new document after it: never the one stored before.
FailTowardNoVersion ==
    [][\A i, j \in Drivers :
         /\ ((Interrupted(i) \/ pc[i] = "SetVersion_InsertOne")
               /\ GetVersion(j) /\ lastRet'.err = "nil") =>
               lastRet' = Ret("GetVersion", j, "nil", 1, NoMigrationVersion, FALSE)
         /\ (InsertFailed(i) /\ GetVersion(j) /\ lastRet'.err = "nil") =>
               lastRet' = IF lastWrite.op = "InsertOne"
                          THEN Ret("GetVersion", j, "nil", 1, lastRet.version, lastRet.dirty)
                          ELSE Ret("GetVersion", j, "nil", 1, NoMigrationVersion, FALSE)
         /\ SetVersionInsertOne(i) =>
               versionColl' \in {<<>>, <<versionInfo(arg[i].version, arg[i].dirty)>>}
         /\ (Crash(i) /\ pc[i] = "SetVersion_InsertOne") => Interrupted(i)']_vars

\* a SetVersion dropped a stored document, its driver crashed before the
\* insert, and a GetVersion of another driver has returned NoMigrationVersion
FailTowardNoVersion_Witness ==
    /\ lastWrite.op = "Drop" /\ lastWrite.removed = 1
    /\ Interrupted(lastWrite.by)
    /\ pc[lastWrite.by] = "none"
    /\ lastRet = Ret("GetVersion", lastRet.by, "nil", 1, NoMigrationVersion, FALSE)
    /\ lastRet.by # lastWrite.by

\* C11: a GetVersion never changes the version collection; when the database
\* answers its read, it returns NoMigrationVersion, dirty=false and no error
\* on an empty collection (the only error it can return there is that of a
\* read the database did not answer), and on a collection of one document it
\* returns that document's version and dirty, bit for bit.
GetVersionReadsOnly ==
    [][\A j \in Drivers :
         (lastRet'.op = "GetVersion" /\ lastRet'.by = j /\ GetVersion(j)) =>
            /\ versionColl' = versionColl
            /\ pc' = pc
            /\ versionColl = <<>> =>
                  \/ lastRet' = Ret("GetVersion", j, "nil", 1, NoMigrationVersion, FALSE)
                  \/ lastCause' = "FindOne error"
            /\ (Len(versionColl) = 1 /\ lastRet'.err = "nil") =>
                  /\ ToInt64(lastRet'.version) = versionColl[1].version
                  /\ lastRet'.dirty = versionColl[1].dirty]_vars

\* a GetVersion has returned the version of the one document stored, a
\* negative int64, and the document is still there
GetVersionReadsOnly_Witness ==
    /\ lastRet.op = "GetVersion" /\ lastRet.err = "nil"
    /\ Len(versionColl) = 1
    /\ versionColl[1].version < 0
    /\ ToInt64(lastRet.version) = versionColl[1].version
    /\ lastRet.dirty = versionColl[1].dirty

\* the last call to return is a successful Reset, and its drop is the last
\* write the database applied to the migrations collection
JustReset ==
    /\ lastRet = Ret("Reset", lastRet.by, "nil", 1, 0, FALSE)
    /\ lastWrite.call = "Reset" /\ lastWrite.op = "Drop"
    /\ lastWrite.by = lastRet.by /\ lastWrite.acked

\* C12: a GetVersion that reads right after a successful Reset returns
\* NoMigrationVersion and dirty=false; a Reset leaves the lock collection, its
\* index and every lock flag as they are; a Reset that returns success has
\* emptied the version collection, and one whose drop failed returns the
\* error of the drop.
ResetClearsVersion ==
    [][\A i, j \in Drivers :
         /\ Reset(i) =>
               /\ lockColl' = lockColl /\ lockFlag' = lockFlag /\ lockIndex' = lockIndex
               /\ lastRet'.op = "Reset" /\ lastRet'.by = i
               /\ lastRet'.err = "nil" => (versionColl' = <<>> /\ JustReset')
               /\ versionColl' # <<>> =>
                     /\ lastRet'.err = "drop migrations collection failed"
                     /\ lastCause' = "Drop error"
         /\ (JustReset /\ GetVersion(j) /\ lastRet'.err = "nil") =>
               lastRet' = Ret("GetVersion", j, "nil", 1, NoMigrationVersion, FALSE)]_vars

\* a Reset has dropped a stored version while driver 1 holds the lock, and a
\* GetVersion has then returned NoMigrationVersion
ResetClearsVersion_Witness ==
    /\ lastRet = Ret("GetVersion", lastRet.by, "nil", 1, NoMigrationVersion, FALSE)
    /\ lastWrite.call = "Reset" /\ lastWrite.removed = 1 /\ lastWrite.acked
    /\ versionColl = <<>>
    /\ lockFlag[1] = 1
    /\ lockColl = <<lockObj(1)>>

\* the calls RunCommand for the commands 1..k of a batch, in order
RunCommands(k) == [j \in 1..k |-> Call("RunCommand", j)]

\* the calls that open the session and its transaction
Started == <<Call("StartSession", 0), Call("StartTransaction", 0)>>

\* what the batch that driver i is issuing leaves in the database when all
\* of it is applied
Batch(i) == {Effect(i, j) : j \in 1..Len(cmds[i])}

\* the effects of batch r that every client can see
Visible(d, r) == {e \in d : e.run = r}

\* C13: without transactions RunMigration issues the commands one at a time
\* in the order of the payload; it goes on to command k+1 only after command k
\* succeeded; when command k fails it returns a DriverError that names
\* command k and wraps its error, with exactly the commands 1..k issued and
\* the effects of 1..k-1 still applied; it returns success only after all n
\* commands were issued, once each, and succeeded.
SequentialStopsAtFirstFailure ==
    [][\A i \in Drivers :
         (RunCommand(i) /\ ~transactionMode[i]) =>
            LET k == Len(trace[i]) + 1
                n == Len(cmds[i])
            IN /\ trace[i] = RunCommands(k - 1)
               /\ k <= n
               /\ \A j \in 1..(k - 1) : Effect(i, j) \in data'
               /\ IF pc'[i] = "RunCommand"
                  THEN /\ k < n
                       /\ trace'[i] = RunCommands(k)
                       /\ Effect(i, k) \in data'
                  ELSE /\ pc'[i] = "idle"
                       /\ lastRun' = Run(run[i], n, FALSE, RunCommands(k))
                       /\ lastRet'.op = "RunMigration" /\ lastRet'.by = i
                       /\ lastRet'.err = "nil" => (k = n /\ Effect(i, k) \in data')
                       /\ lastRet'.err # "nil" =>
                             /\ lastRet'.err = ExecError(cmds[i][k])
                             /\ lastCause' = "RunCommand error"]_vars

\* a RunMigration without transactions has failed at its second command "b":
\* two commands were issued, the effect of the first is in the database, that
\* of the second is not
SequentialStopsAtFirstFailure_Witness ==
    /\ lastRet.op = "RunMigration" /\ lastRet.err = ExecError("b")
    /\ ~lastRun.txn
    /\ lastRun.trace = RunCommands(2)
    /\ Visible(data, lastRun.run) = {[run |-> lastRun.run, cmd |-> 1]}

\* C14: inside a transaction a command that fails ends the call: no later
\* command is issued, no commit is attempted, the driver calls no abort (the
\* session is ended, nothing else), what the transaction held is discarded,
\* and the error returned is the DriverError of the command, not that of a
\* commit; RunMigration goes on to the next command or to the commit only
\* after the command succeeded.
TransactionStopsAtFailedCommand ==
    [][\A i \in Drivers :
         (RunCommand(i) /\ transactionMode[i]) =>
            LET k == Len(Issued(trace[i])) + 1
                n == Len(cmds[i])
                t == Started \o RunCommands(k)
            IN /\ trace[i] = Started \o RunCommands(k - 1)
               /\ data' = data
               /\ IF Effect(i, k) \in txn'[i]
                  THEN /\ pc'[i] = IF k < n THEN "RunCommand" ELSE "CommitTransaction"
                       /\ trace'[i] = t
                       /\ lastRet' = lastRet
                  ELSE /\ pc'[i] = "idle"
                       /\ txn'[i] = {}
                       /\ lastRun' = Run(run[i], n, TRUE, Append(t, Call("EndSession", 0)))
                       /\ \A c \in 1..Len(lastRun'.trace) :
                             lastRun'.trace[c].call \notin {"CommitTransaction", "AbortTransaction"}
                       /\ lastRet' = Ret("RunMigration", i, ExecError(cmds[i][k]), k + 3, 0, FALSE)
                       /\ lastRet'.err # "failed to commit transaction"
                       /\ lastCause' = "RunCommand error"]_vars

\* a RunMigration with transactions has failed at the first of two commands:
\* the second was never issued and the session was ended without a commit
TransactionStopsAtFailedCommand_Witness ==
    /\ lastRet.op = "RunMigration" /\ lastRet.err = ExecError("a")
    /\ lastRun = Run(lastRun.run, 2, TRUE, Started \o RunCommands(1) \o <<Call("EndSession", 0)>>)
    /\ Visible(data, lastRun.run) = {}

\* C15: the commit is attempted once, after StartSession, StartTransaction
\* and the commands 1..n in order, all of which succeeded; a commit that fails
\* is returned as the DriverError "failed to commit transaction", which is no
\* command error; a RunMigration with transactions returns success only from
\* a commit that the database applied.
CommitOnceAfterAllCommands ==
    [][/\ \A i \in Drivers :
            CommitTransaction(i) =>
               LET n == Len(cmds[i])
                   t == Started \o RunCommands(n)
               IN /\ transactionMode[i]
                  /\ trace[i] = t
                  /\ txn[i] = Batch(i)
                  /\ lastRun' = Run(run[i], n, TRUE,
                                    t \o <<Call("CommitTransaction", 0), Call("EndSession", 0)>>)
                  /\ lastRet'.err \in {"nil", "failed to commit transaction"}
                  /\ lastRet'.err = "nil" => Batch(i) \subseteq data'
                  /\ lastRet'.err # "nil" =>
                        /\ lastCause' = "CommitTransaction error"
                        /\ \A c \in Commands : lastRet'.err # ExecError(c)
       /\ (lastRun' # lastRun /\ lastRun'.txn /\ lastRet'.err = "nil") =>
             /\ pc[lastRet'.by] = "CommitTransaction"
             /\ Len(SelectSeq(lastRun'.trace, LAMBDA c : c.call = "CommitTransaction")) = 1]_vars

\* a RunMigration with transactions has issued both its commands and its
\* commit has failed: the call returned the commit error
CommitOnceAfterAllCommands_Witness ==
    /\ lastRet = Ret("RunMigration", lastRet.by, "failed to commit transaction", 6, 0, FALSE)
    /\ lastCause = "CommitTransaction error"
    /\ lastRun.txn /\ lastRun.of = 2
    /\ lastRun.trace = Started \o RunCommands(2)
                          \o <<Call("CommitTransaction", 0), Call("EndSession", 0)>>

\* all the effects of the batch of the last RunMigration that returned
WholeBatch(r) == {[run |-> r.run, cmd |-> j] : j \in 1..r.of}

\* no effect of a transaction that is still open can be seen
OpenTransactionsInvisible ==
    \A i \in Drivers :
        (transactionMode[i] /\ pc[i] \in {"RunCommand", "CommitTransaction"}) =>
            Visible(data, run[i]) = {}

\* C16: with transactions, no effect of a batch can be seen while its
\* RunMigration is in progress or after its driver crashed; when the call
\* returns an error none can be seen, when it returns success all can.
TransactionErrorLeavesNothing ==
    [][/\ OpenTransactionsInvisible /\ OpenTransactionsInvisible'
       /\ \A i \in Drivers :
            (Crash(i) /\ transactionMode[i]) => Visible(data', run[i]) = {}
       /\ (lastRun' # lastRun /\ lastRun'.txn) =>
             Visible(data', lastRun'.run) = IF lastRet'.err = "nil"
                                            THEN WholeBatch(lastRun')
                                            ELSE {}]_vars

\* C16 as amended: with transactions, no effect of a batch can be seen while
\* its RunMigration is in progress or after its driver crashed; when the call
\* returns success all effects can be seen; when it returns the error of a
\* command, of StartSession or of StartTransaction, none can; when it returns
\* the error of the commit, either none can or all can (the database applied
\* the commit and the answer did not arrive), never a part of the batch.
TransactionAllOrNothing ==
    [][/\ OpenTransactionsInvisible /\ OpenTransactionsInvisible'
       /\ \A i \in Drivers :
            (Crash(i) /\ transactionMode[i]) => Visible(data', run[i]) = {}
       /\ (lastRun' # lastRun /\ lastRun'.txn) =>
             IF lastRet'.err = "nil"
             THEN Visible(data', lastRun'.run) = WholeBatch(lastRun')
             ELSE IF lastRet'.err = "failed to commit transaction"
             THEN Visible(data', lastRun'.run) \in {{}, WholeBatch(lastRun')}
             ELSE Visible(data', lastRun'.run) = {}]_vars

\* a RunMigration with transactions has failed at the second of two commands,
\* after the first had succeeded, and nothing of the batch can be seen, while
\* an earlier batch can
TransactionAllOrNothing_Witness ==
    /\ lastRet.op = "RunMigration" /\ lastRet.err = ExecError("b")
    /\ lastRun.txn /\ lastRun.of = 2
    /\ Len(Issued(lastRun.trace)) = 2
    /\ Visible(data, lastRun.run) = {}
    /\ data # {}

\* the text is a JSON array and each of its elements is a document
IsArrayOfDocuments(payload) ==
    /\ payload.kind = "array"
    /\ \A k \in 1..Len(payload.elems) : payload.elems[k] \in Commands

\* the payloads that cannot be read or are no JSON array of documents
Malformed == {payload \in Payloads : ~payload.read \/ ~IsArrayOfDocuments(payload)}

\* C17: a RunMigration whose payload cannot be read or is no JSON array of
\* documents returns the read error or the parse error with no call made on
\* the client (no command, no session, no transaction) and the database as it
\* was, with and without transactions.
MalformedPayloadTouchesNothing ==
    [][\A i \in Drivers :
         \* only a step in which driver i returns or leaves "idle" can be its call
         (pc[i] = "idle" /\ (lastRet'.by = i \/ pc'[i] # "idle")) =>
            \A payload \in Malformed :
               RunMigrationOf(i, payload) =>
                  /\ lastRet' = Ret("RunMigration", i,
                                    IF payload.read THEN "unmarshaling json error"
                                                    ELSE "read error",
                                    0, 0, FALSE)
                  /\ lastRun' = Run(0, 0, transactionMode[i], <<>>)
                  /\ pc'[i] = "idle"
                  /\ trace'[i] = <<>>
                  /\ data' = data /\ txn' = txn /\ runs' = runs
                  /\ versionColl' = versionColl /\ lockColl' = lockColl]_vars

\* a driver with transactions has returned the parse error, with no call
\* made, on a database that holds the effects of an earlier batch
MalformedPayloadTouchesNothing_Witness ==
    /\ lastRet = Ret("RunMigration", lastRet.by, "unmarshaling json error", 0, 0, FALSE)
    /\ pc[lastRet.by] = "idle"
    /\ transactionMode[lastRet.by]
    /\ lastRun = Run(0, 0, TRUE, <<>>)
    /\ data # {}
\* C18: a SetVersion whose Drop fails returns the DriverError "drop migrations
\* collection failed" wrapping the error of the Drop, without attempting the
\* insert; one whose InsertOne fails returns the DriverError "save version
\* failed" wrapping the error of the InsertOne; the two messages differ, and
\* SetVersion returns nil only after a Drop and an InsertOne that both
\* succeeded.
SetVersionErrorsDistinct ==
    [][/\ \A i \in Drivers :
            /\ SetVersion(i) =>
                  IF pc'[i] = "SetVersion_InsertOne"
                  THEN /\ versionColl' = <<>>
                       /\ lastWrite' = Write("SetVersion", "Drop", i, TRUE, Len(versionColl))
                       /\ lastRet' = lastRet
                  ELSE /\ pc'[i] = "idle"
                       /\ lastRet'.op = "SetVersion" /\ lastRet'.by = i
                       /\ lastRet'.err = "drop migrations collection failed"
                       /\ lastRet'.dbOps = 1
                       /\ lastCause' = "Drop error"
            /\ SetVersionInsertOne(i) =>
                  /\ lastRet'.op = "SetVersion" /\ lastRet'.by = i
                  /\ lastRet'.dbOps = 2
                  /\ lastRet'.err \in {"nil", "save version failed"}
                  /\ lastRet'.err = "nil" =>
                        /\ lastWrite' = Write("SetVersion", "InsertOne", i, TRUE, 0)
                        /\ versionColl' = Append(versionColl,
                                                 versionInfo(arg[i].version, arg[i].dirty))
                  /\ lastRet'.err # "nil" => lastCause' = "InsertOne error"
       /\ (lastRet' # lastRet /\ lastRet'.op = "SetVersion" /\ lastRet'.err = "nil") =>
             pc[lastRet'.by] = "SetVersion_InsertOne"]_vars

\* a SetVersion has dropped the stored document and its insert has failed:
\* the call returned "save version failed" and the collection is empty
SetVersionErrorsDistinct_Witness ==
    /\ lastRet.op = "SetVersion" /\ lastRet.err = "save version failed"
    /\ lastCause = "InsertOne error"
    /\ lastWrite = Write("SetVersion", "Drop", lastRet.by, TRUE, 1)
    /\ versionColl = <<>>

\* C19: NewDriver called with an empty database name or with a nil client
\* returns an error value and no driver, with no database operation: it
\* neither returns nil nor panics.
NewDriverFailsFast ==
    [][\A i \in Drivers : \A client \in Clients, database \in Databases,
                             locking \in BOOLEAN, transactions \in BOOLEAN,
                             o \in WriteOutcomes :
         (NewDriverOf(i, client, database, locking, transactions, o)
            /\ (database = "" \/ client = "nil")) =>
               /\ lastRet'.op = "NewDriver" /\ lastRet'.by = i
               /\ lastRet'.err \notin {"nil", "panic: nil pointer dereference"}
               /\ lastRet'.dbOps = 0
               /\ pc'[i] = "none"
               /\ lockIndex' = lockIndex]_vars

\* C20: NewDriver with locking enabled issues the CreateOne of the unique
\* index and returns the driver only when it succeeded, otherwise its error
\* and no driver; so every driver with locking enabled, and every InsertOne of
\* a Lock, finds the index in place.  NewDriver without locking issues no
\* database operation.
IndexBeforeLock ==
    [][/\ \A i \in Drivers : \A locking \in BOOLEAN, transactions \in BOOLEAN,
                                o \in WriteOutcomes :
            NewDriverOf(i, "live", "db", locking, transactions, o) =>
               IF locking
               THEN /\ lastRet'.dbOps = 1
                    /\ IF lastRet'.err = "nil"
                       THEN pc'[i] = "idle" /\ enabled'[i] /\ lockIndex'
                       ELSE /\ lastRet'.err = "CreateOne error"
                            /\ pc'[i] = "none" /\ ~enabled'[i]
               ELSE /\ lastRet' = Ret("NewDriver", i, "nil", 0, 0, FALSE)
                    /\ pc'[i] = "idle" /\ ~enabled'[i]
                    /\ lockIndex' = lockIndex /\ lockColl' = lockColl
       /\ \A i \in Drivers : (enabled'[i] \/ pc'[i] = "Lock_InsertOne") => lockIndex'
       /\ \A i \in Drivers : LockInsertOne(i) => lockIndex]_vars

\* the NewDriver of one process has failed at CreateOne and left it without a
\* driver, while the Lock of another driver is about to insert, with the index
\* in place
IndexBeforeLock_Witness ==
    /\ lastRet.op = "NewDriver" /\ lastRet.err = "CreateOne error" /\ lastRet.dbOps = 1
    /\ pc[lastRet.by] = "none"
    /\ \E i \in Drivers : pc[i] = "Lock_InsertOne" /\ enabled[i]
    /\ lockIndex
\* the calls of a returned run, each made once
MadeOnce(t) == \A a, b \in 1..Len(t) : t[a] = t[b] => a = b

LockAndVersionOperationsHaveDeadline ==
    \A i \in Drivers :
        \A op \in {"Lock.InsertOne", "Unlock.DeleteMany", "GetVersion.FindOne",
                   "SetVersion.Drop", "SetVersion.InsertOne"} :
            pc[i] # Blocked(op)

\* C23: Close returns nil, issues no database operation and changes nothing:
\* the lock flags, the lock records and the index, the version collection,
\* the migration database and the configuration of the driver stay as they
\* are, and the driver can be used as before, also when it holds the lock.
CloseChangesNothing ==
    [][\A i \in Drivers :
         (lastRet'.op = "Close" /\ Close(i)) =>
            /\ lastRet' = Ret("Close", i, "nil", 0, 0, FALSE)
            /\ pc'[i] = "idle"
            /\ lockFlag' = lockFlag
            /\ lockColl' = lockColl /\ lockIndex' = lockIndex
            /\ versionColl' = versionColl
            /\ data' = data
            /\ enabled' = enabled /\ transactionMode' = transactionMode]_vars

\* a driver that holds the lock, with a version stored, has returned from
\* Close: its flag is still locked and its record is still there
CloseChangesNothing_Witness ==
    /\ lastRet = Ret("Close", lastRet.by, "nil", 0, 0, FALSE)
    /\ lockFlag[lastRet.by] = 1
    /\ lockColl = <<lockObj(lastRet.by)>>
    /\ versionColl # <<>>

\* C24: on a driver instance shared by several threads, the check of the lock
\* flag and its update are one atomic step: at most one thread at a time is
\* between the check and the store of a Lock, so at most one insert is
\* attempted, and no Lock returns ErrDatabaseLocked on an instance whose flag
\* another of its threads has set.
SharedLockIsAtomic ==
    /\ Cardinality({t \in Drivers : pc[t] \in {"Lock_InsertOne", "Lock_return"}}) <= 1
    /\ (lastRet.op = "Lock" /\ lastRet.err = "ErrDatabaseLocked") => lockFlag[Shared] = 0

\* C25: in every state of interleaved Lock and Unlock calls of live drivers
\* on one database, a lock record exists if and only if exactly one driver
\* has its flag locked (stated for the states in which no call is under way,
\* where the passing gap between the database operation and the store of the
\* flag does not count).
FlagRecordConsistent ==
    (\A i \in Drivers : pc[i] = "idle") =>
        (Len(lockColl) >= 1 <=> Cardinality(Locked) = 1)

\* C26: the lock does not stay unobtainable while nobody holds it: when no
\* driver's flag is locked and no call is under way, no record is left in the
\* locking collection that would make the unique index reject the insert of
\* every later Lock.
LockObtainableWhenFree ==
    (Locked = {} /\ \A i \in Drivers : pc[i] = "idle") =>
        \A i \in Drivers : ~DuplicateKey(lockColl, lockObj(i), lockIndex)

\* C27: lock state and version state are separate.  No step of Lock or
\* Unlock changes the version collection, and no step of GetVersion,
\* SetVersion, Reset or RunMigration changes a lock flag, the lock records or
\* the index of the locking collection, whether the step succeeds or fails
\* (the migration commands write to the migration database only).
SeparationOfLockAndVersion ==
    [][\A i \in Drivers :
         /\ versionColl' # versionColl =>
               ~(\/ Lock(i) \/ LockInsertOne(i) \/ LockReturn(i)
                 \/ Unlock(i) \/ UnlockDeleteMany(i) \/ UnlockReturn(i))
         /\ (lockFlag' # lockFlag \/ lockColl' # lockColl \/ lockIndex' # lockIndex) =>
               ~(\/ GetVersion(i) \/ SetVersion(i) \/ SetVersionInsertOne(i) \/ Reset(i)
                 \/ RunMigration(i) \/ RunCommand(i) \/ CommitTransaction(i))]_vars

\* the caller holds the lock, a version is stored, and a Reset of the caller
\* has failed: flag, record and version document are all still there
SeparationOfLockAndVersion_Witness ==
    /\ lastRet.op = "Reset" /\ lastRet.by = Caller /\ lastRet.err # "nil"
    /\ lockFlag[Caller] = 1
    /\ lockColl = <<lockObj(Caller)>>
    /\ versionColl # <<>>

\* the last call to return is a SetVersion of driver i whose drop returned
\* an error
DropFailed(i) ==
    /\ lastRet.op = "SetVersion" /\ lastRet.by = i
    /\ lastRet.err = "drop migrations collection failed"

\* C28: a SetVersion whose drop returns an error attempts no insert and
\* leaves the version collection exactly as it was before the call, so that a
\* following GetVersion returns the (version, dirty) stored before.
DropErrorLeavesVersion ==
    [][\A i \in Drivers :
         (pc[i] = "idle" /\ pc'[i] = "idle" /\ lastRet'.by = i /\ SetVersion(i)) =>
            /\ DropFailed(i)' /\ lastRet'.dbOps = 1
            /\ versionColl' = versionColl]_vars

\* C28 as amended: SetVersion goes on to the insert only after a drop that
\* was acknowledged.  A SetVersion whose drop returns an error attempts no
\* insert; it leaves the version collection exactly as it was before the call
\* when the database did not apply the drop, and empty when the database
\* applied the drop and the answer was lost.  A following GetVersion returns
\* what the collection then holds: the (version, dirty) stored before, or
\* NoMigrationVersion and dirty=false.
DropErrorLeavesVersionOrNone ==
    [][\A i \in Drivers :
         /\ (pc[i] = "idle" /\ (pc'[i] # "idle" \/ lastRet'.by = i) /\ SetVersion(i)) =>
               /\ pc'[i] # "idle" =>
                     /\ pc'[i] = "SetVersion_InsertOne"
                     /\ lastWrite' = Write("SetVersion", "Drop", i, TRUE, Len(versionColl))
               /\ pc'[i] = "idle" =>
                     /\ DropFailed(i)' /\ lastRet'.dbOps = 1
                     /\ versionColl' \in {versionColl, <<>>}
                     /\ versionColl' # versionColl =>
                           lastWrite' = Write("SetVersion", "Drop", i, FALSE, Len(versionColl))
         /\ \A j \in Drivers :
               (DropFailed(i) /\ lastRet'.op = "GetVersion" /\ lastRet'.by = j
                  /\ GetVersion(j) /\ lastRet'.err = "nil") =>
                  lastRet' = IF versionColl = <<>>
                             THEN Ret("GetVersion", j, "nil", 1, NoMigrationVersion, FALSE)
                             ELSE Ret("GetVersion", j, "nil", 1,
                                      ToUint64(versionColl[1].version), versionColl[1].dirty)]_vars

\* a SetVersion has returned the drop error although its drop removed the
\* stored version document: the collection is empty
DropErrorLeavesVersionOrNone_Witness ==
    /\ DropFailed(lastRet.by)
    /\ lastWrite = Write("SetVersion", "Drop", lastRet.by, FALSE, 1)
    /\ versionColl = <<>>
====
